---- MODULE Spec2Model ----
(***************************************************************************)
(* Conversation state and persistence of the Streamlit chat front-end      *)
(* src/app.py.  The script is re-executed from top to bottom on every UI   *)
(* interaction; pc is the line of the script being executed ("Idle" when   *)
(* no run is in progress, "await" while the completion request is in       *)
(* flight).  Text is modelled as a sequence of one-character strings.      *)
(***************************************************************************)
EXTENDS Integers, Sequences, FiniteSets, TLC

VARIABLES
    key,            \* GROQ_KEY of this process: "unset" (None), "empty" (""), "valid"
    rows,           \* rows of table chat_history: set of [id, role, content]
    nextId,         \* next AUTOINCREMENT id of chat_history
    tableExists,    \* chat_history has been created
    openConns,      \* sqlite3 connections opened and not closed by this process
    hasSession,     \* "messages" in st.session_state
    messages,       \* st.session_state.messages
    text_box,       \* value of the text box widget
    uploaded_file,  \* the file in the uploader (NoFile: none)
    user_input,     \* the script's user_input in the current (or last) run
    voice_mode,     \* sidebar checkbox
    event,          \* button that triggered this run: "none", "send", "clear", "export", "speak"
    pc,             \* script line being executed
    e,              \* exception raised in this run: "none", "GroqError", "gateway", "sqlite", "speech",
                    \* "microphone", "file"
    notice,         \* the last notice of this run: "none", "warning", "error", "uncaught", "said", "info"
    exported,       \* chat_text offered for download in this run (empty: none)
    transcript,     \* messages argument of the completion request of this run
    callsInRun      \* completion requests made in this run

vars == <<key, rows, nextId, tableExists, openConns, hasSession, messages, text_box,
          uploaded_file, user_input, voice_mode, event, pc, e, notice, exported,
          transcript, callsInRun>>

(* ------------------------------ bounds --------------------------------- *)
MaxId == 2
MaxOpen == 1

(* ------------------------------- text ---------------------------------- *)
\* A character that has no escape in a TLA+ string is written as its Python escape
\* ("\\xa0" is the no-break space).
\* what the user may type: nothing, blanks only (a space and a no-break space), text
\* after a blank
Texts == {<<>>, <<" ", "\\xa0">>, <<" ", "a">>}

\* the characters str.strip() removes: those for which str.isspace() holds
Whitespace == {"\t", "\n", "\\x0b", "\f", "\r", "\\x1c", "\\x1d", "\\x1e", "\\x1f", " ",
               "\\x85", "\\xa0", "\\u1680", "\\u2000", "\\u2001", "\\u2002", "\\u2003",
               "\\u2004", "\\u2005", "\\u2006", "\\u2007", "\\u2008", "\\u2009", "\\u200a",
               "\\u2028", "\\u2029", "\\u202f", "\\u205f", "\\u3000"}

RECURSIVE LStrip(_)
LStrip(s) == IF s # <<>> /\ Head(s) \in Whitespace THEN LStrip(Tail(s)) ELSE s

RECURSIVE RStrip(_)
RStrip(s) == IF s # <<>> /\ s[Len(s)] \in Whitespace
             THEN RStrip(SubSeq(s, 1, Len(s) - 1)) ELSE s

\* variant: the input is tested without .strip()
strip_Missing(s) == s

strip(s) == RStrip(LStrip(s))

GREETING == <<"H","e","l","l","o","!"," ","H","o","w"," ","c","a","n"," ","I"," ",
              "h","e","l","p"," ","y","o","u"," ","t","o","d","a","y","?">>
CLEARED == <<"C","h","a","t"," ","c","l","e","a","r","e","d","!"," ","H","o","w"," ",
             "c","a","n"," ","I"," ","h","e","l","p"," ","n","o","w","?">>
SYSTEM_PROMPT == <<"Y","o","u"," ","a","r","e"," ","a"," ","h","e","l","p","f","u","l"," ",
                   "a","n","d"," ","f","r","i","e","n","d","l","y"," ",
                   "a","s","s","i","s","t","a","n","t",".">>
Replies == {<<"o","k">>}

Msg(r, c) == [role |-> r, content |-> c]

(* ------------------------------- files --------------------------------- *)
\* an uploaded file: its MIME type, whether it can be read (a PDF PyPDF2 can parse,
\* bytes that are UTF-8), and its text page by page (a text file is one page)
NoFile == [type |-> "none", readable |-> TRUE, pages |-> <<>>]
Files == {[type |-> "application/pdf", readable |-> TRUE, pages |-> <<<<"p">>, <<"q">>>>],
          [type |-> "text/plain", readable |-> FALSE, pages |-> <<>>]}

\* lines 75-80: the texts of the pages, one after the other
RECURSIVE extract_text_from_pdf(_)
extract_text_from_pdf(pages) ==
    IF pages = <<>> THEN <<>>
    ELSE Head(pages) \o extract_text_from_pdf(Tail(pages))

\* lines 130-133
FileText(f) ==
    IF f.type = "application/pdf" THEN extract_text_from_pdf(f.pages)
    ELSE IF f.pages = <<>> THEN <<>> ELSE f.pages[1]

SummaryCap == 4000
SUMMARY_PREFIX == <<"S","u","m","m","a","r","i","z","e"," ","t","h","i","s"," ",
                    "t","e","x","t",":","\n">>

\* line 135: f"Summarize this text:\n{file_text[:4000]}"
SummaryInput(f) ==
    LET file_text == FileText(f)
        n == IF Len(file_text) < SummaryCap THEN Len(file_text) ELSE SummaryCap
    IN SUMMARY_PREFIX \o SubSeq(file_text, 1, n)

Keys == {"unset", "empty", "valid"}
Outcomes == {"ok", "connect_fail", "stmt_fail"}

(* ------------------------------ store ---------------------------------- *)
\* connections left open by one store operation with the given outcome
Leaked(o) == IF o = "stmt_fail" THEN 1 ELSE 0

\* the Conversation is followed while it holds at most the greeting and one message
\* per row id
MaxMsgs == MaxId + 1

CanHappen(o) == o = "stmt_fail" => openConns < MaxOpen

InsertRow(rs, id, role, content) ==
    rs \cup {[id |-> id, role |-> role, content |-> content]}

\* variant: the table is read newest row first
RECURSIVE ScanByRowid_Desc(_)
ScanByRowid_Desc(rs) ==
    IF rs = {} THEN <<>>
    ELSE LET r == CHOOSE x \in rs : \A y \in rs : x.id >= y.id
         IN <<r>> \o ScanByRowid_Desc(rs \ {r})

RECURSIVE ScanByRowid(_)
ScanByRowid(rs) ==
    IF rs = {} THEN <<>>
    ELSE LET r == CHOOSE x \in rs : \A y \in rs : x.id <= y.id
         IN <<r>> \o ScanByRowid(rs \ {r})

load_messages(rs) ==
    LET scan == ScanByRowid(rs)
    IN [i \in 1..Len(scan) |-> Msg(scan[i].role, scan[i].content)]

(* ------------------------------ script --------------------------------- *)
Init ==
    /\ key \in Keys
    /\ rows = {}
    /\ nextId = 1
    /\ tableExists = FALSE
    /\ openConns = 0
    /\ hasSession = FALSE
    /\ messages = <<>>
    /\ text_box = <<>>
    /\ uploaded_file = NoFile
    /\ user_input = <<>>
    /\ voice_mode = FALSE
    /\ event = "none"
    /\ pc = "L16"
    /\ e = "none"
    /\ notice = "none"
    /\ exported = <<>>
    /\ transcript = <<>>
    /\ callsInRun = 0

\* an exception leaves the script: the run ends and the page shows the traceback
Uncaught(exc) ==
    /\ e' = exc
    /\ notice' = "uncaught"
    /\ pc' = "Idle"

\* line 16: client = Groq(api_key=GROQ_KEY)
CreateClient ==
    /\ pc = "L16"
    /\ IF key = "unset"
       THEN Uncaught("GroqError")
       ELSE pc' = "L99" /\ UNCHANGED <<e, notice>>
    /\ UNCHANGED <<key, uploaded_file, text_box, exported, rows, nextId, tableExists,
                   openConns, hasSession, messages, user_input, voice_mode, event,
                   transcript, callsInRun>>

\* variant: init_db drops the table and creates it again
InitDb_Recreate(o) ==
    /\ pc = "L99"
    /\ CanHappen(o)
    /\ openConns' = openConns + Leaked(o)
    /\ IF o = "ok"
       THEN tableExists' = TRUE /\ rows' = {} /\ pc' = "L100" /\ UNCHANGED <<e, notice>>
       ELSE UNCHANGED <<tableExists, rows>> /\ Uncaught("sqlite")
    /\ UNCHANGED <<key, uploaded_file, text_box, exported, nextId, hasSession, messages,
                   user_input, voice_mode, event, transcript, callsInRun>>

\* line 99: init_db()
InitDb(o) ==
    /\ pc = "L99"
    /\ CanHappen(o)
    /\ openConns' = openConns + Leaked(o)
    /\ IF o = "ok"
       THEN tableExists' = TRUE /\ pc' = "L100" /\ UNCHANGED <<e, notice>>
       ELSE UNCHANGED tableExists /\ Uncaught("sqlite")
    /\ UNCHANGED <<key, uploaded_file, text_box, exported, rows, nextId, hasSession,
                   messages, user_input, voice_mode, event, transcript, callsInRun>>

Seeded(ms) == IF ms = <<>> THEN <<Msg("assistant", GREETING)>> ELSE ms

\* lines 100-103: load or keep the Conversation, seed it when empty
SessionInit(o) ==
    /\ pc = "L100"
    /\ IF hasSession
       THEN /\ o = "ok"
            /\ messages' = Seeded(messages)
            /\ pc' = "L115"
            /\ UNCHANGED <<hasSession, openConns, e, notice>>
       ELSE /\ CanHappen(o)
            /\ openConns' = openConns + Leaked(o)
            /\ IF o = "ok"
               THEN /\ hasSession' = TRUE
                    /\ messages' = Seeded(load_messages(rows))
                    /\ pc' = "L115"
                    /\ UNCHANGED <<e, notice>>
               ELSE /\ UNCHANGED <<hasSession, messages>>
                    /\ Uncaught("sqlite")
    /\ UNCHANGED <<key, uploaded_file, text_box, exported, rows, nextId, tableExists,
                   user_input, voice_mode, event, transcript, callsInRun>>

\* lines 137, 165, 174 with none of Send, Clear Chat, Export Chat pressed: the run ends
NoButton ==
    /\ pc = "L137"
    /\ event \in {"none", "speak"}
    /\ pc' = "Idle"
    /\ UNCHANGED <<key, uploaded_file, text_box, exported, rows, nextId, tableExists,
                   openConns, hasSession, messages, user_input, voice_mode, event, e,
                   notice, transcript, callsInRun>>

\* lines 137-139: Send with blank input
SendEmpty ==
    /\ pc = "L137"
    /\ event = "send"
    /\ strip(user_input) = <<>>
    /\ notice' = "warning"
    /\ pc' = "Idle"
    /\ UNCHANGED <<key, uploaded_file, text_box, exported, rows, nextId, tableExists,
                   openConns, hasSession, messages, user_input, voice_mode, event, e,
                   transcript, callsInRun>>

\* line 141: the user message enters the Conversation
SendAppendUser ==
    /\ pc = "L137"
    /\ event = "send"
    /\ strip(user_input) # <<>>
    /\ messages' = Append(messages, Msg("user", user_input))
    /\ pc' = "L142"
    /\ UNCHANGED <<key, uploaded_file, text_box, exported, rows, nextId, tableExists,
                   openConns, hasSession, user_input, voice_mode, event, e, notice,
                   transcript, callsInRun>>

\* variant: a failed save_message at line 142 is ignored and the turn goes on
SendSaveUser_Swallow(o) ==
    /\ pc = "L142"
    /\ CanHappen(o)
    /\ openConns' = openConns + Leaked(o)
    /\ IF o = "ok"
       THEN /\ rows' = InsertRow(rows, nextId, "user", user_input)
            /\ nextId' = nextId + 1
       ELSE UNCHANGED <<rows, nextId>>
    /\ pc' = "L146"
    /\ UNCHANGED <<key, uploaded_file, text_box, exported, tableExists, hasSession,
                   messages, user_input, voice_mode, event, e, notice, transcript,
                   callsInRun>>

\* line 142: save_message("user", user_input), outside the try block
SendSaveUser(o) ==
    /\ pc = "L142"
    /\ CanHappen(o)
    /\ openConns' = openConns + Leaked(o)
    /\ IF o = "ok"
       THEN /\ rows' = InsertRow(rows, nextId, "user", user_input)
            /\ nextId' = nextId + 1
            /\ pc' = "L146"
            /\ UNCHANGED <<e, notice>>
       ELSE /\ UNCHANGED <<rows, nextId>>
            /\ Uncaught("sqlite")
    /\ UNCHANGED <<key, uploaded_file, text_box, exported, tableExists, hasSession,
                   messages, user_input, voice_mode, event, transcript, callsInRun>>

\* variant: the request carries the Conversation without the system message
GatewayCall_NoSystem ==
    /\ pc = "L146"
    /\ transcript' = messages
    /\ callsInRun' = callsInRun + 1
    /\ pc' = "await"
    /\ UNCHANGED <<key, uploaded_file, text_box, exported, rows, nextId, tableExists,
                   openConns, hasSession, messages, user_input, voice_mode, event, e,
                   notice>>

\* lines 146-152: the completion request is sent
GatewayCall ==
    /\ pc = "L146"
    /\ transcript' = <<Msg("system", SYSTEM_PROMPT)>> \o messages
    /\ callsInRun' = callsInRun + 1
    /\ pc' = "await"
    /\ UNCHANGED <<key, uploaded_file, text_box, exported, rows, nextId, tableExists,
                   openConns, hasSession, messages, user_input, voice_mode, event, e,
                   notice>>

\* lines 153-154: the request returned a reply (replies are followed while the
\* Conversation has room for them)
GatewayReturn(reply) ==
    /\ pc = "await"
    /\ key = "valid"
    /\ Len(messages) + 1 <= MaxMsgs
    /\ messages' = Append(messages, Msg("assistant", reply))
    /\ pc' = "L155"
    /\ UNCHANGED <<key, uploaded_file, text_box, exported, rows, nextId, tableExists,
                   openConns, hasSession, user_input, voice_mode, event, e, notice,
                   transcript, callsInRun>>

\* variant: the error text is put into the Conversation as an assistant message
GatewayRaise_Append ==
    /\ pc = "await"
    /\ e' = "gateway"
    /\ pc' = "L160"
    /\ messages' = Append(messages, Msg("assistant", <<"E","r","r","o","r">>))
    /\ UNCHANGED <<key, uploaded_file, text_box, exported, rows, nextId, tableExists,
                   openConns, hasSession, user_input, voice_mode, event, notice,
                   transcript, callsInRun>>

\* variant: a failed request is sent again
GatewayRaise_Retry ==
    /\ pc = "await"
    /\ e' = "gateway"
    /\ pc' = "L146"
    /\ UNCHANGED <<key, uploaded_file, text_box, exported, rows, nextId, tableExists,
                   openConns, hasSession, messages, user_input, voice_mode, event, notice,
                   transcript, callsInRun>>

\* line 146 raises (authentication, network, rate limit): caught at line 159
GatewayRaise ==
    /\ pc = "await"
    /\ e' = "gateway"
    /\ pc' = "L160"
    /\ UNCHANGED <<key, uploaded_file, text_box, exported, rows, nextId, tableExists,
                   openConns, hasSession, messages, user_input, voice_mode, event, notice,
                   transcript, callsInRun>>

\* variant: the reply is put into the Conversation and not written to the store
SendSaveReply_Skip(o) ==
    /\ pc = "L155"
    /\ CanHappen(o)
    /\ openConns' = openConns + Leaked(o)
    /\ IF o = "ok"
       THEN /\ pc' = "L156"
            /\ UNCHANGED e
       ELSE /\ e' = "sqlite"
            /\ pc' = "L160"
    /\ UNCHANGED <<key, uploaded_file, text_box, exported, rows, nextId, tableExists,
                   hasSession, messages, user_input, voice_mode, event, notice, transcript,
                   callsInRun>>

\* line 155: save_message("assistant", reply), inside the try block
SendSaveReply(o) ==
    /\ pc = "L155"
    /\ CanHappen(o)
    /\ openConns' = openConns + Leaked(o)
    /\ IF o = "ok"
       THEN /\ rows' = InsertRow(rows, nextId, "assistant", messages[Len(messages)].content)
            /\ nextId' = nextId + 1
            /\ pc' = "L156"
            /\ UNCHANGED e
       ELSE /\ UNCHANGED <<rows, nextId>>
            /\ e' = "sqlite"
            /\ pc' = "L160"
    /\ UNCHANGED <<key, uploaded_file, text_box, exported, tableExists, hasSession,
                   messages, user_input, voice_mode, event, notice, transcript,
                   callsInRun>>

\* lines 156-157: speak_text(reply) when voice replies are enabled
SpeakReply(ok) ==
    /\ pc = "L156"
    /\ IF voice_mode
       THEN IF ok THEN pc' = "L158" /\ UNCHANGED e
                  ELSE pc' = "L160" /\ e' = "speech"
       ELSE ok /\ pc' = "L158" /\ UNCHANGED e
    /\ UNCHANGED <<key, uploaded_file, text_box, exported, rows, nextId, tableExists,
                   openConns, hasSession, messages, user_input, voice_mode, event, notice,
                   transcript, callsInRun>>

\* st.rerun(): the current run stops and the script starts again with no button pressed
StRerun ==
    /\ pc' = "L16"
    /\ user_input' = text_box
    /\ transcript' = <<>>
    /\ callsInRun' = 0
    /\ event' = "none"
    /\ e' = "none"
    /\ notice' = "none"

\* line 158
SendRerun ==
    /\ pc = "L158"
    /\ StRerun
    /\ UNCHANGED <<key, uploaded_file, text_box, exported, rows, nextId, tableExists,
                   openConns, hasSession, messages, voice_mode>>

\* lines 159-160: except Exception as e: st.error(...); the run then ends
SendExcept ==
    /\ pc = "L160"
    /\ notice' = "error"
    /\ pc' = "Idle"
    /\ UNCHANGED <<key, uploaded_file, text_box, exported, rows, nextId, tableExists,
                   openConns, hasSession, messages, user_input, voice_mode, event, e,
                   transcript, callsInRun>>

\* variant: the rows are deleted and the Conversation is kept
ClearChat_KeepSession(o) ==
    /\ pc = "L137"
    /\ event = "clear"
    /\ CanHappen(o)
    /\ openConns' = openConns + Leaked(o)
    /\ IF o = "ok"
       THEN /\ rows' = {}
            /\ UNCHANGED messages
            /\ StRerun
       ELSE /\ UNCHANGED <<rows, messages, event, user_input, transcript, callsInRun>>
            /\ Uncaught("sqlite")
    /\ UNCHANGED <<key, uploaded_file, text_box, exported, nextId, tableExists, hasSession,
                   voice_mode>>

\* lines 165-172: Clear Chat
ClearChat(o) ==
    /\ pc = "L137"
    /\ event = "clear"
    /\ CanHappen(o)
    /\ openConns' = openConns + Leaked(o)
    /\ IF o = "ok"
       THEN /\ rows' = {}
            /\ messages' = <<Msg("assistant", CLEARED)>>
            /\ StRerun
       ELSE /\ UNCHANGED <<rows, messages, event, user_input, transcript, callsInRun>>
            /\ Uncaught("sqlite")
    /\ UNCHANGED <<key, uploaded_file, text_box, exported, nextId, tableExists, hasSession,
                   voice_mode>>

(* ------------------------------ speech --------------------------------- *)
\* what happens to the recording: the microphone cannot be opened (lines 58-60),
\* recognize_google gives a text, or it raises one of the two errors of lines 65-70
Recognitions == {[kind |-> "text", text |-> <<"h", "i">>],
                 [kind |-> "UnknownValueError", text |-> <<>>],
                 [kind |-> "RequestError", text |-> <<>>],
                 [kind |-> "OSError", text |-> <<>>]}

\* variant: a failed recognition returns the error message
recognize_voice_ErrorText(g) ==
    [raised |-> g.kind = "OSError",
     text |-> IF g.kind = "text" THEN g.text
              ELSE IF g.kind = "OSError" THEN <<>> ELSE <<"?">>]

\* lines 56-70: the recognized text, or the empty string after an error of the
\* recognizer; an error of the microphone is raised to the caller
recognize_voice(g) ==
    [raised |-> g.kind = "OSError",
     text |-> IF g.kind = "text" THEN g.text ELSE <<>>]

\* lines 115-135: the input area.  user_input is the text box value (line 117), the
\* transcription when Speak was pressed and yielded one (lines 119-122), and the
\* summary request when a file is in the uploader (lines 129-135)
InputArea(g) ==
    /\ pc = "L115"
    /\ event # "speak" => g.kind = "UnknownValueError"
    /\ LET heard == IF event = "speak" THEN recognize_voice(g)
                    ELSE [raised |-> FALSE, text |-> <<>>]
           spoken_input == IF heard.text # <<>> THEN heard.text ELSE text_box
           spoken_notice == IF event # "speak" THEN notice
                            ELSE IF g.kind = "text" THEN "said" ELSE "error"
       IN IF heard.raised
          THEN UNCHANGED user_input /\ Uncaught("microphone")
          ELSE IF uploaded_file = NoFile
          THEN /\ user_input' = spoken_input
               /\ notice' = spoken_notice
               /\ pc' = "L137"
               /\ UNCHANGED e
          ELSE IF ~uploaded_file.readable
          THEN user_input' = spoken_input /\ Uncaught("file")
          ELSE /\ user_input' = SummaryInput(uploaded_file)
               /\ notice' = "info"
               /\ pc' = "L137"
               /\ UNCHANGED e
    /\ UNCHANGED <<key, uploaded_file, text_box, exported, rows, nextId, tableExists,
                   openConns, hasSession, messages, voice_mode, event, transcript,
                   callsInRun>>

\* a connection left open by a failed store operation is closed when the garbage
\* collector frees it
Collect ==
    /\ openConns > 0
    /\ \E n \in 0..(openConns - 1) : openConns' = n
    /\ UNCHANGED <<key, uploaded_file, text_box, exported, rows, nextId, tableExists,
                   hasSession, messages, user_input, voice_mode, event, pc, e, notice,
                   transcript, callsInRun>>

(* ------------------------------ export -------------------------------- *)
Lower == <<"a","b","c","d","e","f","g","h","i","j","k","l","m",
           "n","o","p","q","r","s","t","u","v","w","x","y","z">>
Upper == <<"A","B","C","D","E","F","G","H","I","J","K","L","M",
           "N","O","P","Q","R","S","T","U","V","W","X","Y","Z">>

\* str.upper on one character
UpperChar(c) ==
    IF \E i \in 1..Len(Lower) : Lower[i] = c
    THEN Upper[CHOOSE i \in 1..Len(Lower) : Lower[i] = c]
    ELSE c

upper(s) == [i \in 1..Len(s) |-> UpperChar(s[i])]

\* the characters of a role name
RoleText(r) ==
    CASE r = "user" -> <<"u","s","e","r">>
      [] r = "assistant" -> <<"a","s","s","i","s","t","a","n","t">>
      [] r = "system" -> <<"s","y","s","t","e","m">>

\* f"{m['role'].upper()}: {m['content']}"
ExportLine(m) == upper(RoleText(m.role)) \o <<":", " ">> \o m.content

\* sep.join(parts)
RECURSIVE Join(_, _)
Join(sep, parts) ==
    IF parts = <<>> THEN <<>>
    ELSE IF Len(parts) = 1 THEN parts[1]
    ELSE parts[1] \o sep \o Join(sep, Tail(parts))

\* variant: the turns are joined with a single line break
ExportText_OneBreak(ms) == Join(<<"\n">>, [i \in 1..Len(ms) |-> ExportLine(ms[i])])

\* line 175: chat_text
ExportText(ms) == Join(<<"\n", "\n">>, [i \in 1..Len(ms) |-> ExportLine(ms[i])])

\* variant: the exported text is also saved as a row
ExportChat_Saves ==
    /\ pc = "L137"
    /\ event = "export"
    /\ exported' = ExportText(messages)
    /\ rows' = InsertRow(rows, nextId, "assistant", exported')
    /\ pc' = "Idle"
    /\ UNCHANGED <<key, uploaded_file, text_box, nextId, tableExists, openConns,
                   hasSession, messages, user_input, voice_mode, event, e, notice,
                   transcript, callsInRun>>

\* lines 174-176: Export Chat
ExportChat ==
    /\ pc = "L137"
    /\ event = "export"
    /\ exported' = ExportText(messages)
    /\ pc' = "Idle"
    /\ UNCHANGED <<key, uploaded_file, text_box, rows, nextId, tableExists, openConns,
                   hasSession, messages, user_input, voice_mode, event, e, notice,
                   transcript, callsInRun>>

(* --------------------------- user interface ---------------------------- *)
\* where a run is when its next statement is a call of st.*: the page set-up of lines
\* 85-96, the history of lines 105-110, the widgets and buttons of lines 115-137,
\* st.spinner of line 144, st.error of line 160
YieldPoints == {"L99", "L115", "L137", "L146", "L160"}

\* every interaction starts a new run of the script; a run in progress is stopped at
\* its next call of st.* and what is left of it is dropped
NewRun(ev) ==
    /\ pc \in {"Idle"} \cup YieldPoints
    /\ event' = ev
    /\ pc' = "L16"
    /\ e' = "none"
    /\ notice' = "none"
    /\ transcript' = <<>>
    /\ exported' = <<>>
    /\ callsInRun' = 0

\* line 117: the text box is edited
TypeInput(txt) ==
    /\ NewRun("none")
    /\ txt # text_box
    /\ text_box' = txt
    /\ user_input' = txt
    /\ UNCHANGED <<key, uploaded_file, rows, nextId, tableExists, openConns, hasSession,
                   messages, voice_mode>>

\* line 95: the voice checkbox is toggled
ToggleVoice ==
    /\ NewRun("none")
    /\ voice_mode' = ~voice_mode
    /\ user_input' = text_box
    /\ UNCHANGED <<key, uploaded_file, text_box, rows, nextId, tableExists, openConns,
                   hasSession, messages>>

\* line 137: Send is pressed (a Send that goes on to line 141 is followed while there
\* are ids for the user message and the reply and room for the user message)
PressSend ==
    /\ NewRun("send")
    /\ \/ strip(text_box) = <<>> /\ uploaded_file = NoFile
       \/ nextId + 1 <= MaxId /\ Len(messages) + 1 <= MaxMsgs
    /\ user_input' = text_box
    /\ UNCHANGED <<key, uploaded_file, text_box, rows, nextId, tableExists, openConns,
                   hasSession, messages, voice_mode>>

\* line 124: a file is put into the uploader, or the file is taken out of it
SetFile(f) ==
    /\ NewRun("none")
    /\ f # uploaded_file
    /\ uploaded_file' = f
    /\ user_input' = text_box
    /\ UNCHANGED <<key, text_box, rows, nextId, tableExists, openConns, hasSession,
                   messages, voice_mode>>

\* line 119: Speak is pressed
PressSpeak ==
    /\ NewRun("speak")
    /\ user_input' = text_box
    /\ UNCHANGED <<key, uploaded_file, text_box, rows, nextId, tableExists, openConns,
                   hasSession, messages, voice_mode>>

\* line 165: Clear Chat is pressed
PressClear ==
    /\ NewRun("clear")
    /\ user_input' = text_box
    /\ UNCHANGED <<key, uploaded_file, text_box, rows, nextId, tableExists, openConns,
                   hasSession, messages, voice_mode>>

\* line 174: Export Chat is pressed
PressExport ==
    /\ NewRun("export")
    /\ user_input' = text_box
    /\ UNCHANGED <<key, uploaded_file, text_box, rows, nextId, tableExists, openConns,
                   hasSession, messages, voice_mode>>

\* the process is restarted with the same environment: session state and connections
\* are gone, the database file stays
Restart ==
    /\ pc = "Idle"
    /\ openConns' = 0
    /\ hasSession' = FALSE
    /\ messages' = <<>>
    /\ text_box' = <<>>
    /\ uploaded_file' = NoFile
    /\ user_input' = <<>>
    /\ voice_mode' = FALSE
    /\ event' = "none"
    /\ pc' = "L16"
    /\ e' = "none"
    /\ notice' = "none"
    /\ transcript' = <<>>
    /\ callsInRun' = 0
    /\ exported' = <<>>
    /\ UNCHANGED <<key, rows, nextId, tableExists>>

Next ==
    \/ CreateClient
    \/ \E o \in Outcomes : InitDb(o)
    \/ \E o \in Outcomes : SessionInit(o)
    \/ \E g \in Recognitions : InputArea(g)
    \/ NoButton
    \/ SendEmpty
    \/ SendAppendUser
    \/ \E o \in Outcomes : SendSaveUser(o)
    \/ GatewayCall
    \/ \E reply \in Replies : GatewayReturn(reply)
    \/ GatewayRaise
    \/ \E o \in Outcomes : SendSaveReply(o)
    \/ \E ok \in BOOLEAN : SpeakReply(ok)
    \/ SendRerun
    \/ SendExcept
    \/ \E o \in Outcomes : ClearChat(o)
    \/ ExportChat
    \/ \E txt \in Texts : TypeInput(txt)
    \/ ToggleVoice
    \/ PressSend
    \/ PressSpeak
    \/ \E f \in Files \cup {NoFile} : SetFile(f)
    \/ PressClear
    \/ PressExport
    \/ Restart
    \/ Collect

Spec == Init /\ [][Next]_vars

\* the same program with a store whose operations never fail
NextStoreOk ==
    \/ CreateClient
    \/ InitDb("ok")
    \/ SessionInit("ok")
    \/ \E g \in Recognitions : InputArea(g)
    \/ NoButton
    \/ SendEmpty
    \/ SendAppendUser
    \/ SendSaveUser("ok")
    \/ GatewayCall
    \/ \E reply \in Replies : GatewayReturn(reply)
    \/ GatewayRaise
    \/ SendSaveReply("ok")
    \/ \E ok \in BOOLEAN : SpeakReply(ok)
    \/ SendRerun
    \/ SendExcept
    \/ ClearChat("ok")
    \/ ExportChat
    \/ \E txt \in Texts : TypeInput(txt)
    \/ ToggleVoice
    \/ PressSend
    \/ PressSpeak
    \/ \E f \in Files \cup {NoFile} : SetFile(f)
    \/ PressClear
    \/ PressExport
    \/ Restart

SpecStoreOk == Init /\ [][NextStoreOk]_vars

TypeOK ==
    /\ key \in Keys
    /\ nextId \in 1..(MaxId + 1)
    /\ openConns \in 0..MaxOpen
    /\ Len(messages) <= MaxMsgs
    /\ Cardinality(rows) < nextId

(* ------------------------------ helpers -------------------------------- *)
Last(q) == q[Len(q)]
IsPrefix(p, q) == Len(p) <= Len(q) /\ SubSeq(q, 1, Len(p)) = p
IsBlank(s) == \A i \in 1..Len(s) : s[i] \in Whitespace
IsGreeting(m) == m.role = "assistant" /\ m.content \in {GREETING, CLEARED}
WithoutGreeting(ms) == SelectSeq(ms, LAMBDA m : ~IsGreeting(m))
Greetings(ms) == Len(ms) - Len(WithoutGreeting(ms))
\* the user message of the Send turn in progress
TurnMsg == Msg("user", user_input)
\* the step is the Clear Chat handler
ClearStep == pc = "L137" /\ event = "clear"
\* the step is the garbage collector's: the script stays where it is
GcStep == pc' = pc /\ openConns' < openConns
\* the step is an interaction of the user: a button is pressed or a widget changes
UserStep ==
    /\ pc' = "L16"
    /\ \/ event' # "none"
       \/ <<text_box, voice_mode, uploaded_file>>' # <<text_box, voice_mode, uploaded_file>>

(* ------------------------------- claims -------------------------------- *)

\* C1: append-only store.  Every completed save_message makes load_messages return
\* the previous result followed by exactly the saved (role, content) pair; outside
\* Clear Chat an earlier load_messages result is a prefix of a later one, and the
\* result changes only by such an append.
C1_AppendOnly ==
    [][LET before == load_messages(rows)
           after == load_messages(rows')
       IN /\ (pc = "L142" /\ pc' = "L146") => after = Append(before, TurnMsg)
          /\ (pc = "L155" /\ pc' = "L156")
                => after = Append(before, Msg("assistant", Last(messages).content))
          /\ ~ClearStep => IsPrefix(before, after)
          /\ (~ClearStep /\ after # before)
                => (pc = "L142" /\ pc' = "L146") \/ (pc = "L155" /\ pc' = "L156")]_vars

\* two saves have been made and load_messages returns them in insertion order
C1_Witness ==
    /\ pc = "L156"
    /\ Cardinality(rows) = 2
    /\ load_messages(rows) = <<Msg("user", <<" ", "a">>), Msg("assistant", <<"o","k">>)>>

\* C2: failure isolation.  From the moment the user message of a Send turn is saved,
\* through a failing completion request and the error notice, to the end of the turn,
\* the store and the Conversation do not change, and both end with that user message
\* (so no assistant message of the turn is in either).
C2_FailureIsolation ==
    [][(\/ pc = "L146"
        \/ pc = "await" /\ pc' = "L160"
        \/ pc = "L160" /\ e = "gateway")
       => /\ UNCHANGED <<rows, messages>>
          /\ rows # {}
          /\ Last(load_messages(rows')) = TurnMsg
          /\ Last(messages') = TurnMsg
          /\ GcStep \/ UserStep \/ pc' \in {"await", "L160", "Idle"}]_vars

\* a Send turn has ended with a failed completion request
C2_Witness ==
    /\ pc = "Idle"
    /\ e = "gateway"
    /\ notice = "error"
    /\ Last(messages) = TurnMsg

\* C3: reset completeness.  When the Clear Chat handler completes, load_messages
\* returns the empty sequence and the Conversation is exactly one synthetic
\* assistant greeting.
C3_ResetCompleteness ==
    [][(ClearStep /\ pc' = "L16" /\ ~UserStep)
       => /\ load_messages(rows') = <<>>
          /\ Len(messages') = 1
          /\ IsGreeting(messages'[1])]_vars

\* Clear Chat has removed rows that had been saved
C3_Witness ==
    /\ pc = "L16"
    /\ nextId > 1
    /\ rows = {}
    /\ messages = <<Msg("assistant", CLEARED)>>

\* C4: empty-input guard.  When the Send handler finds the input (line 138) empty or
\* whitespace-only, it ends the run with the warning and changes neither the store
\* nor the Conversation and makes no completion request; while the input of a run
\* started by Send is empty or whitespace-only the store does not change, no request
\* is made, line 141 is not reached and an established Conversation does not change.
C4_EmptyInputGuard ==
    [][/\ (pc = "L137" /\ event = "send" /\ IsBlank(user_input) /\ ~GcStep /\ ~UserStep)
            => /\ UNCHANGED <<rows, nextId, messages, transcript, callsInRun>>
               /\ pc' = "Idle"
               /\ notice' = "warning"
       /\ (event = "send" /\ IsBlank(user_input) /\ pc # "Idle")
            => /\ UNCHANGED <<rows, nextId, transcript, callsInRun>>
               /\ hasSession => UNCHANGED messages
               /\ pc' \notin {"L142", "L146", "await"}]_vars

\* Send was pressed with a whitespace-only input and the run ended with the warning
C4_Witness ==
    /\ pc = "Idle"
    /\ event = "send"
    /\ notice = "warning"
    /\ user_input = <<" ", "\\xa0">>

\* C5: reload idempotence.  Between turns, the Conversation a restarted process would
\* build from load_messages equals the current Conversation up to the synthetic
\* greeting; it has no greeting when the store is non-empty and exactly one otherwise.
C5_ReloadIdempotence ==
    (pc = "Idle" /\ hasSession)
    => LET rebuilt == Seeded(load_messages(rows))
       IN /\ WithoutGreeting(rebuilt) = WithoutGreeting(messages)
          /\ rows # {} => Greetings(rebuilt) = 0
          /\ rows = {} => Greetings(rebuilt) = 1

\* C6: ordering inside a Send turn.  Line 141 changes the Conversation and not the
\* store; the store write of line 142 happens when the Conversation already ends with
\* the user message; the completion request is sent only when the store ends with it.
C6_SendOrdering ==
    [][/\ (pc = "L137" /\ pc' = "L142")
            => messages' = Append(messages, TurnMsg) /\ rows' = rows
       /\ (pc = "L142" /\ rows' # rows)
            => /\ Last(messages) = TurnMsg
               /\ load_messages(rows') = Append(load_messages(rows), TurnMsg)
       /\ (pc # "await" /\ pc' = "await")
            => /\ rows # {}
               /\ Last(load_messages(rows)) = TurnMsg
               /\ Last(messages) = TurnMsg]_vars

\* the completion request is in flight and the user message is the last row
C6_Witness ==
    /\ pc = "await"
    /\ rows # {}
    /\ Last(load_messages(rows)) = TurnMsg
    /\ transcript = <<Msg("system", SYSTEM_PROMPT)>> \o messages

\* C7: error containment.  No error of a store operation or of the gateway leaves
\* the script uncaught.
C7_ErrorContainment ==
    e \in {"sqlite", "gateway"} => notice # "uncaught"

\* C8: missing credential is deferred.  Without a usable credential, a credential
\* error is raised only by a completion request of a Send turn.
C8_CredentialDeferred ==
    (key \in {"unset", "empty"} /\ e \in {"GroqError", "gateway"})
    => callsInRun > 0 /\ event = "send"

\* C9: scoped store handles.  Between store operations no connection is open.
C9_ScopedHandles ==
    openConns = 0

\* C10: no automatic retry.  A run makes at most one completion request, and only a
\* run started by Send makes one: after a request, failed or not, there is no other
\* until Send is pressed again.
C10_NoRetry ==
    /\ callsInRun <= 1
    /\ callsInRun > 0 => event = "send"

\* the request of a Send turn has failed (the user message is saved and has no
\* reply), and a later run without Send has ended and made no request
C10_Witness ==
    /\ pc = "Idle"
    /\ key = "empty"
    /\ event = "none"
    /\ hasSession
    /\ callsInRun = 0
    /\ Cardinality(rows) = 1
    /\ Last(messages) = Last(load_messages(rows))
    /\ Last(messages).role = "user"

\* number of occurrences of m in the sequence q
Count(m, q) == Cardinality({i \in 1..Len(q) : q[i] = m})

\* C11: the system message exists only in the transcript.  Every completion request
\* carries the fixed system message first and then the whole Conversation in order
\* (the Conversation only grows by the reply afterwards); no row and no message of
\* the Conversation has role system.
C11_SystemOnlyInTranscript ==
    /\ \A r \in rows : r.role # "system"
    /\ \A i \in 1..Len(messages) : messages[i].role # "system"
    /\ transcript # <<>>
          => /\ transcript[1] = Msg("system", SYSTEM_PROMPT)
             /\ IsPrefix(Tail(transcript), messages)
    /\ pc = "await" => transcript # <<>> /\ Tail(transcript) = messages

\* a request is in flight whose transcript is system message, greeting, user message
C11_Witness ==
    /\ pc = "await"
    /\ Len(transcript) = 3
    /\ transcript[2] = Msg("assistant", GREETING)
    /\ transcript[3].role = "user"

\* C12: speech playback does not affect the turn.  With voice replies enabled, once
\* the reply is in the Conversation and in the store the run goes on to st.rerun()
\* whatever speak_text does.
C12_SpeechIndependent ==
    [][(pc = "L156" /\ voice_mode /\ ~GcStep)
       => /\ pc' = "L158"
          /\ Last(messages') = Last(load_messages(rows'))
          /\ Last(messages').role = "assistant"]_vars

\* C15: init_db is idempotent.  A run of init_db never changes the rows or the id
\* counter of the store, and a table that exists still exists afterwards.
C15_InitIdempotent ==
    [][pc = "L99"
       => /\ rows' = rows
          /\ nextId' = nextId
          /\ tableExists => tableExists']_vars

\* init_db has run again on a table that holds two rows
C15_Witness ==
    /\ pc = "L100"
    /\ tableExists
    /\ hasSession
    /\ Cardinality(rows) = 2

\* C17: durability of what is sent.  When a completion request is made, every
\* message of its transcript other than the system message and the synthetic
\* greeting is in the store, occurrence by occurrence.
C17_SentIsDurable ==
    pc = "await"
    => \A i \in 2..Len(transcript) :
          ~IsGreeting(transcript[i])
          => Count(transcript[i], transcript) <= Count(transcript[i], load_messages(rows))

\* C16: the Conversation is a projection of the store.  When no store operation
\* fails, between runs the Conversation of a session is load_messages, or one
\* synthetic greeting followed by load_messages; no row is a synthetic greeting.
C16_ConversationIsProjection ==
    /\ \A r \in rows : ~IsGreeting(Msg(r.role, r.content))
    /\ (pc = "Idle" /\ hasSession)
          => \/ messages = load_messages(rows)
             \/ /\ messages # <<>>
                /\ IsGreeting(messages[1])
                /\ Tail(messages) = load_messages(rows)

\* a session that began with the greeting has completed a turn with a reply
C16_Witness ==
    /\ pc = "Idle"
    /\ hasSession
    /\ Len(messages) = 3
    /\ messages[1] = Msg("assistant", GREETING)
    /\ Tail(messages) = load_messages(rows)

\* C13: export is read-only.  The Export Chat handler changes neither the store nor
\* the Conversation, opens no connection, raises no store error and makes no
\* completion request; in a run started by Export Chat in an established session
\* the rows and the Conversation never change and no request is made.
C13_ExportReadOnly ==
    [][/\ (pc = "L137" /\ event = "export" /\ ~GcStep)
            => UNCHANGED <<rows, nextId, tableExists, openConns, messages, e,
                           transcript, callsInRun>>
       /\ (event = "export" /\ pc # "Idle")
            => /\ UNCHANGED <<rows, nextId, transcript, callsInRun>>
               /\ hasSession => UNCHANGED messages]_vars

\* Export Chat has produced the text of a Conversation that has rows in the store
C13_Witness ==
    /\ pc = "Idle"
    /\ event = "export"
    /\ exported # <<>>
    /\ rows # {}

\* the role label of the export format, written out
Label(m) ==
    IF m.role = "assistant" THEN <<"A","S","S","I","S","T","A","N","T">>
    ELSE IF m.role = "user" THEN <<"U","S","E","R">>
    ELSE <<"S","Y","S","T","E","M">>

\* the export format, built from the last message backwards
RECURSIVE Rendered(_)
Rendered(ms) ==
    IF ms = <<>> THEN <<>>
    ELSE LET front == SubSeq(ms, 1, Len(ms) - 1)
             line == Label(Last(ms)) \o <<":", " ">> \o Last(ms).content
         IN IF front = <<>> THEN line
            ELSE Rendered(front) \o <<"\n", "\n">> \o line

\* C14: export format.  The exported text is the messages in order, each as the
\* uppercased role, ": " and the content, separated by one blank line, with nothing
\* before the first or after the last; [assistant Hi, user Bye] gives
\* "ASSISTANT: Hi\n\nUSER: Bye".
C14_ExportFormat ==
    /\ exported # <<>> => exported = Rendered(messages)
    /\ ExportText(<<Msg("assistant", <<"H","i">>), Msg("user", <<"B","y","e">>)>>)
         = <<"A","S","S","I","S","T","A","N","T",":"," ","H","i","\n","\n",
             "U","S","E","R",":"," ","B","y","e">>

\* a Conversation of greeting, user message and reply has been exported
C14_Witness ==
    /\ pc = "Idle"
    /\ exported # <<>>
    /\ Len(messages) = 3
    /\ messages[2].role = "user"

\* C18: transcribed speech enters the session.  When Speak has yielded a text and
\* Send is pressed next, the input of the Send run is that text (which line 141
\* then appends and line 142 saves).
C18_SpeechIsSent ==
    [][(pc = "Idle" /\ event = "speak" /\ notice = "said" /\ event' = "send")
       => user_input' = user_input]_vars

\* C19: failed speech is no input.  A run started by Speak changes neither the rows
\* nor an established Conversation and makes no completion request; when the
\* recognition fails (nothing recognized, service unavailable), recognize_voice
\* returns the empty string, and the input area then leaves the input what the text
\* box holds.
C19_FailedSpeechNoInput ==
    [][/\ (event = "speak" /\ pc # "Idle")
            => /\ UNCHANGED <<rows, nextId, transcript, callsInRun>>
               /\ hasSession => UNCHANGED messages
       /\ \A g \in Recognitions :
             g.kind \in {"UnknownValueError", "RequestError"}
             => recognize_voice(g) = [raised |-> FALSE, text |-> <<>>]
       /\ (pc = "L115" /\ event = "speak" /\ notice' = "error")
            => user_input' = text_box /\ pc' = "L137"]_vars

\* a run started by Speak has ended with a failed recognition
C19_Witness ==
    /\ pc = "Idle"
    /\ event = "speak"
    /\ notice = "error"
    /\ hasSession
    /\ user_input = text_box

\* C20: turns run to completion.  A run that has started is left only by its own
\* last statement (the next interaction is taken when no run is in progress), and
\* every Send with non-empty input goes from UserSubmitted (lines 141-142) to
\* AwaitingReply (the completion request).
C20_AlwaysAwaitsReply ==
    [][GcStep \/ /\ UserStep => pc = "Idle"
                 /\ pc = "L142" => pc' = "L146"
                 /\ pc = "L146" => pc' = "await"]_vars
====
